---- MODULE Spec2Model ----
(***************************************************************************)
(* DoubleCountSanityCheck::analyze                                         *)
(* (larpandora/LArPandoraAnalysis/DoubleCountSanityCheck_module.cc).       *)
(*                                                                         *)
(* One art event holds a hit collection, a PFParticle collection, a        *)
(* cluster collection and the two associations PFParticle->Cluster and     *)
(* Cluster->Hit.  analyze() walks PFParticle -> Cluster -> Hit, pushing    *)
(* the PFParticle onto the vector kept for the hit in an unordered_map,    *)
(* then scans the hit collection, counts the hits whose vector is longer   *)
(* than one, prints one line per hit and a summary line, and throws        *)
(* std::logic_error when the count is not zero.                            *)
(*                                                                         *)
(* An art::Ptr is modelled by its key.  PFParticle i of the collection has *)
(* key i (0-based, as in the code) and its clusters are                    *)
(* pfParticleToClusterAssoc[i + 1]; likewise for clusters.  The hit        *)
(* collection read under m_hitLabel holds the keys 0 .. hitHandleSize - 1; *)
(* the Cluster->Hit association is read under m_pandoraLabel, a different  *)
(* label, so a key it holds may lie outside the hit collection.            *)
(*                                                                         *)
(* The counters of analyze are unsigned int; the collections considered    *)
(* here are far shorter than 2^32, so no counter wraps and the narrowing   *)
(* of hitHandle->size() at line 116 keeps the number.                      *)
(***************************************************************************)
EXTENDS Integers, Sequences, FiniteSets, TLC

\* Bounds: the sizes of the three collections of an event and the number of
\* associations (PFParticle->Cluster and Cluster->Hit together) it holds
MaxHits == 2
MaxPFParticles == 2
MaxClusters == 2
MaxAssocs == 4

VARIABLES
    lastOutcome,                \* how the previous call of analyze ended
    replayed,                   \* TRUE when this event is the previous one, permuted
    prevResult,                 \* result of the previous call (kept on a replay)
    hitHandleSize,              \* hitHandle->size()
    pfParticleToClusterAssoc,   \* per PFParticle, the sequence of cluster keys
    clusterToHitAssoc,          \* per cluster, the sequence of hit keys
    pc,                         \* position of the call
    i,                          \* index of the PFParticle loop (line 101)
    ci,                         \* position of the cluster loop (line 105)
    hi,                         \* position of the hit loop (line 107)
    hitToPFParticlesMap,        \* the unordered_map of line 100
    nHits,                      \* line 116
    nMultiAssociatedHits,       \* line 117
    ai,                         \* index of the audit loop (line 118)
    diag,                       \* lines printed at line 126: <<hit key, nPFParticles>>
    summary                     \* line printed at line 134

vars == <<lastOutcome, replayed, prevResult, hitHandleSize,
          pfParticleToClusterAssoc, clusterToHitAssoc, pc, i, ci, hi,
          hitToPFParticlesMap, nHits, nMultiAssociatedHits, ai, diag, summary>>

event == <<hitHandleSize, pfParticleToClusterAssoc, clusterToHitAssoc>>
history == <<lastOutcome, replayed, prevResult>>
locals == <<i, ci, hi, hitToPFParticlesMap, nHits, nMultiAssociatedHits, ai>>
output == <<diag, summary>>

\* Keys a Cluster->Hit association can hold; a key at or above hitHandleSize
\* is the key of a hit that is not in the hit collection
HitKeys == 0 .. MaxHits - 1

EmptyMap == [h \in {} |-> <<>>]

NoResult == [verdict |-> "none", nHits |-> 0, nMultiAssociatedHits |-> 0, diag |-> <<>>]

nPFParticles == Len(pfParticleToClusterAssoc)

nClusters == Len(clusterToHitAssoc)

RECURSIVE TotalLen(_)
TotalLen(ss) == IF ss = <<>> THEN 0 ELSE Len(Head(ss)) + TotalLen(Tail(ss))

nAssocs == TotalLen(pfParticleToClusterAssoc) + TotalLen(clusterToHitAssoc)

Terminal == pc \in {"returned", "thrown"}

----------------------------------------------------------------------------
(* The event the framework hands to analyze                                *)

Init ==
    /\ lastOutcome = "none"
    /\ replayed = FALSE
    /\ prevResult = NoResult
    /\ hitHandleSize = 0
    /\ pfParticleToClusterAssoc = <<>>
    /\ clusterToHitAssoc = <<>>
    /\ pc = "load"
    /\ i = 0 /\ ci = 0 /\ hi = 0
    /\ hitToPFParticlesMap = EmptyMap
    /\ nHits = 0
    /\ nMultiAssociatedHits = 0
    /\ ai = 0
    /\ diag = <<>>
    /\ summary = <<>>

\* the hit collection of the event gets one more hit
AddHit ==
    /\ pc = "load"
    /\ hitHandleSize < MaxHits
    /\ hitHandleSize' = hitHandleSize + 1
    /\ UNCHANGED <<pfParticleToClusterAssoc, clusterToHitAssoc, pc, history, locals, output>>

\* the PFParticle collection gets one more PFParticle, without clusters yet
AddPFParticle ==
    /\ pc = "load"
    /\ nPFParticles < MaxPFParticles
    /\ pfParticleToClusterAssoc' = Append(pfParticleToClusterAssoc, <<>>)
    /\ UNCHANGED <<hitHandleSize, clusterToHitAssoc, pc, history, locals, output>>

\* the cluster collection gets one more cluster, without hits yet
AddCluster ==
    /\ pc = "load"
    /\ nClusters < MaxClusters
    /\ clusterToHitAssoc' = Append(clusterToHitAssoc, <<>>)
    /\ UNCHANGED <<hitHandleSize, pfParticleToClusterAssoc, pc, history, locals, output>>

\* PFParticle p is associated to cluster c (a cluster of the cluster collection)
AssociateCluster ==
    /\ pc = "load"
    /\ nAssocs < MaxAssocs
    /\ \E p \in 1 .. nPFParticles, c \in 0 .. nClusters - 1 :
        pfParticleToClusterAssoc' =
            [pfParticleToClusterAssoc EXCEPT ![p] = Append(@, c)]
    /\ UNCHANGED <<hitHandleSize, clusterToHitAssoc, pc, history, locals, output>>

\* cluster c is associated to the hit with key h
AssociateHit ==
    /\ pc = "load"
    /\ nAssocs < MaxAssocs
    /\ \E c \in 1 .. nClusters, h \in HitKeys :
        clusterToHitAssoc' = [clusterToHitAssoc EXCEPT ![c] = Append(@, h)]
    /\ UNCHANGED <<hitHandleSize, pfParticleToClusterAssoc, pc, history, locals, output>>

----------------------------------------------------------------------------
(* analyze.  A variable of the call keeps the value the last call left in   *)
(* it until the declaration or loop header that initialises it is passed.  *)

\* std::unordered_map::operator[] : the map after the access
Subscript(map, h) ==
    IF h \in DOMAIN map
    THEN map
    ELSE [x \in DOMAIN map \cup {h} |-> IF x = h THEN <<>> ELSE map[x]]

\* as PushBack, were the PFParticle inserted only for a hit without an entry
PushBackFirstOnly(map, h, p) ==
    IF h \in DOMAIN map THEN map ELSE [Subscript(map, h) EXCEPT ![h] = Append(@, p)]

\* as PushBack, were a PFParticle already in the vector not pushed again
PushBackDistinct(map, h, p) ==
    IF h \in DOMAIN map /\ \E x \in 1 .. Len(map[h]) : map[h][x] = p
    THEN map
    ELSE [Subscript(map, h) EXCEPT ![h] = Append(@, p)]

\* hitToPFParticlesMap[pHit].push_back(pPFParticle)
PushBack(map, h, p) ==
    [Subscript(map, h) EXCEPT ![h] = Append(@, p)]

\* as Analyze, were the map a member of the module that no call clears
AnalyzeKeepMap ==
    /\ pc \in {"load", "ready"}
    /\ pc' = "forPFParticle"
    /\ i' = 0
    /\ UNCHANGED <<event, history, ci, hi, hitToPFParticlesMap, nHits,
                   nMultiAssociatedHits, ai, output>>

\* lines 79-101: the handles and associations are read, the map is constructed
\* empty, the PFParticle loop starts at 0
Analyze ==
    /\ pc \in {"load", "ready"}
    /\ pc' = "forPFParticle"
    /\ hitToPFParticlesMap' = EmptyMap
    /\ i' = 0
    /\ UNCHANGED <<event, history, ci, hi, nHits, nMultiAssociatedHits, ai, output>>

\* line 101-103: for (unsigned int i = 0; i < pfParticleHandle->size(); ++i)
ForPFParticle ==
    /\ pc = "forPFParticle"
    /\ IF i < nPFParticles
       THEN /\ pc' = "forCluster"
            /\ ci' = 1
       ELSE /\ pc' = "auditInit"
            /\ ci' = ci
    /\ UNCHANGED <<event, history, i, hi, hitToPFParticlesMap, nHits,
                   nMultiAssociatedHits, ai, output>>

\* as ForCluster, were only the first cluster of a PFParticle visited
ForClusterFirstOnly ==
    /\ pc = "forCluster"
    /\ IF ci <= Len(pfParticleToClusterAssoc[i + 1]) /\ ci <= 1
       THEN /\ pc' = "forHit"
            /\ hi' = 1
            /\ i' = i
       ELSE /\ pc' = "forPFParticle"
            /\ i' = i + 1
            /\ hi' = hi
    /\ UNCHANGED <<event, history, ci, hitToPFParticlesMap, nHits,
                   nMultiAssociatedHits, ai, output>>

\* line 105: for (const auto &pCluster : pfParticleToClusterAssoc.at(pPFParticle.key()))
ForCluster ==
    /\ pc = "forCluster"
    /\ IF ci <= Len(pfParticleToClusterAssoc[i + 1])
       THEN /\ pc' = "forHit"
            /\ hi' = 1
            /\ i' = i
       ELSE /\ pc' = "forPFParticle"
            /\ i' = i + 1
            /\ hi' = hi
    /\ UNCHANGED <<event, history, ci, hitToPFParticlesMap, nHits,
                   nMultiAssociatedHits, ai, output>>

\* the key of the cluster the cluster loop is at
pCluster == pfParticleToClusterAssoc[i + 1][ci]

\* lines 107-111: for (const auto &pHit : clusterToHitAssoc.at(pCluster.key()))
ForHit ==
    /\ pc = "forHit"
    /\ IF hi <= Len(clusterToHitAssoc[pCluster + 1])
       THEN /\ hitToPFParticlesMap' =
                  PushBack(hitToPFParticlesMap, clusterToHitAssoc[pCluster + 1][hi], i)
            /\ hi' = hi + 1
            /\ UNCHANGED <<pc, ci>>
       ELSE /\ pc' = "forCluster"
            /\ ci' = ci + 1
            /\ UNCHANGED <<hitToPFParticlesMap, hi>>
    /\ UNCHANGED <<event, history, i, nHits, nMultiAssociatedHits, ai, output>>

\* as AuditInit, were the scan to start at the second hit
AuditInitFromOne ==
    /\ pc = "auditInit"
    /\ nHits' = hitHandleSize
    /\ nMultiAssociatedHits' = 0
    /\ ai' = 1
    /\ pc' = "forAudit"
    /\ UNCHANGED <<event, history, i, ci, hi, hitToPFParticlesMap, output>>

\* lines 116-117
AuditInit ==
    /\ pc = "auditInit"
    /\ nHits' = hitHandleSize
    /\ nMultiAssociatedHits' = 0
    /\ ai' = 0
    /\ pc' = "forAudit"
    /\ UNCHANGED <<event, history, i, ci, hi, hitToPFParticlesMap, output>>

\* as NotCounted, were the threshold off by one
NotCountedUpToTwo(nPFParticlesOfHit) == nPFParticlesOfHit <= 2

\* line 128: the hits the scan does not count
NotCounted(nPFParticlesOfHit) == nPFParticlesOfHit <= 1

\* as AuditHit, were the exception thrown at the first multi-associated hit
AuditHitFailFast ==
    /\ pc = "forAudit"
    /\ IF ai < nHits
       THEN LET map == Subscript(hitToPFParticlesMap, ai)
                n == Len(map[ai])
            IN  /\ hitToPFParticlesMap' = map
                /\ diag' = Append(diag, <<ai, n>>)
                /\ nMultiAssociatedHits' =
                      IF NotCounted(n) THEN nMultiAssociatedHits
                                       ELSE nMultiAssociatedHits + 1
                /\ ai' = ai + 1
                /\ pc' = IF NotCounted(n) THEN pc ELSE "thrown"
       ELSE /\ pc' = "summary"
            /\ UNCHANGED <<hitToPFParticlesMap, diag, nMultiAssociatedHits, ai>>
    /\ UNCHANGED <<event, history, i, ci, hi, nHits, summary>>

\* lines 118-132: for (unsigned int i = 0; i < nHits; ++i)
AuditHit ==
    /\ pc = "forAudit"
    /\ IF ai < nHits
       THEN LET map == Subscript(hitToPFParticlesMap, ai)
                n == Len(map[ai])
            IN  /\ hitToPFParticlesMap' = map
                /\ diag' = Append(diag, <<ai, n>>)
                /\ nMultiAssociatedHits' =
                      IF NotCounted(n) THEN nMultiAssociatedHits
                                       ELSE nMultiAssociatedHits + 1
                /\ ai' = ai + 1
                /\ pc' = pc
       ELSE /\ pc' = "summary"
            /\ UNCHANGED <<hitToPFParticlesMap, diag, nMultiAssociatedHits, ai>>
    /\ UNCHANGED <<event, history, i, ci, hi, nHits, summary>>

\* line 134
Summary ==
    /\ pc = "summary"
    /\ summary' = <<[of |-> nHits, multi |-> nMultiAssociatedHits]>>
    /\ pc' = "verdict"
    /\ UNCHANGED <<event, history, locals, diag>>

\* lines 136-139: throw, or return
Verdict ==
    /\ pc = "verdict"
    /\ pc' = IF nMultiAssociatedHits /= 0 THEN "thrown" ELSE "returned"
    /\ UNCHANGED <<event, history, locals, output>>

AnalyzeStep ==
    \/ ForPFParticle
    \/ ForCluster
    \/ ForHit
    \/ AuditInit
    \/ AuditHit
    \/ Summary
    \/ Verdict

Next ==
    \/ AddHit
    \/ AddPFParticle
    \/ AddCluster
    \/ AssociateCluster
    \/ AssociateHit
    \/ Analyze
    \/ AnalyzeStep

Spec == Init /\ [][Next]_vars

\* analyze is one sequential call: once entered, it keeps taking steps
FairSpec == Spec /\ WF_vars(AnalyzeStep)

----------------------------------------------------------------------------
(* The host calling analyze event after event                              *)

\* what one call of analyze leaves behind: how it ended, its counts, its lines
Result ==
    [verdict |-> pc, nHits |-> nHits, nMultiAssociatedHits |-> nMultiAssociatedHits,
     diag |-> diag]

\* the sequence s with the elements at a and a + 1 exchanged
SwapAt(s, a) ==
    [x \in 1 .. Len(s) |-> IF x = a THEN s[a + 1] ELSE IF x = a + 1 THEN s[a] ELSE s[x]]

\* the host calls analyze on the next event, whatever the outcome of the last
\* call; what the last call left in its variables is what the next one finds
NextEvent ==
    /\ Terminal
    /\ lastOutcome' = pc
    /\ replayed' = FALSE
    /\ prevResult' = NoResult
    /\ hitHandleSize' = 0
    /\ pfParticleToClusterAssoc' = <<>>
    /\ clusterToHitAssoc' = <<>>
    /\ pc' = "load"
    /\ diag' = <<>>
    /\ summary' = <<>>
    /\ UNCHANGED locals

\* what every replay of the last event does but for the event itself
Replay ==
    /\ Terminal
    /\ lastOutcome' = pc
    /\ replayed' = TRUE
    /\ prevResult' = Result
    /\ pc' = "ready"
    /\ diag' = <<>>
    /\ summary' = <<>>
    /\ UNCHANGED locals

\* the next event is the last one with two neighbours of the PFParticle list exchanged
ReplayPFParticlesSwapped ==
    /\ Replay
    /\ \E a \in 1 .. nPFParticles - 1 :
        pfParticleToClusterAssoc' = SwapAt(pfParticleToClusterAssoc, a)
    /\ UNCHANGED <<hitHandleSize, clusterToHitAssoc>>

\* ... with two neighbours of the cluster sequence of one PFParticle exchanged
ReplayClustersSwapped ==
    /\ Replay
    /\ \E p \in 1 .. nPFParticles :
        \E a \in 1 .. Len(pfParticleToClusterAssoc[p]) - 1 :
            pfParticleToClusterAssoc' =
                [pfParticleToClusterAssoc EXCEPT ![p] = SwapAt(@, a)]
    /\ UNCHANGED <<hitHandleSize, clusterToHitAssoc>>

\* ... with two neighbours of the hit sequence of one cluster exchanged
ReplayHitsSwapped ==
    /\ Replay
    /\ \E c \in 1 .. nClusters :
        \E a \in 1 .. Len(clusterToHitAssoc[c]) - 1 :
            clusterToHitAssoc' = [clusterToHitAssoc EXCEPT ![c] = SwapAt(@, a)]
    /\ UNCHANGED <<hitHandleSize, pfParticleToClusterAssoc>>

HostNext ==
    \/ Next
    \/ NextEvent

HostSpec == Init /\ [][HostNext]_vars

PermNext ==
    \/ Next
    \/ ReplayPFParticlesSwapped
    \/ ReplayClustersSwapped
    \/ ReplayHitsSwapped

PermSpec == Init /\ [][PermNext]_vars

----------------------------------------------------------------------------
(* What the properties speak of, read off the event alone                  *)

\* the hits of the hit collection
HitList == 0 .. hitHandleSize - 1

PFParticleKeys == 0 .. nPFParticles - 1

\* the two-hop paths from PFParticle p to hit h: <<position in p's cluster
\* sequence, position in that cluster's hit sequence>>
PathsFrom(p, h) ==
    LET cs == pfParticleToClusterAssoc[p + 1]
    IN  UNION {{<<a, b>> : b \in {x \in 1 .. Len(clusterToHitAssoc[cs[a] + 1]) :
                                    clusterToHitAssoc[cs[a] + 1][x] = h}} :
               a \in 1 .. Len(cs)}

\* PFParticle p reaches hit h through one of its clusters
Reaches(p, h) == PathsFrom(p, h) /= {}

\* the distinct PFParticles that reach hit h
OwnersOf(h) == {p \in PFParticleKeys : Reaches(p, h)}

\* n copies of x
Copies(x, n) == [a \in 1 .. n |-> x]

\* one entry of p per path to h, the PFParticles in the order of their list
RECURSIVE PathSeqFrom(_, _)
PathSeqFrom(p, h) ==
    IF p >= nPFParticles THEN <<>>
    ELSE Copies(p, Cardinality(PathsFrom(p, h))) \o PathSeqFrom(p + 1, h)

PathSeq(h) == PathSeqFrom(0, h)

\* the vector the map holds for h; none is the empty one
DerivedOf(h) == IF h \in DOMAIN hitToPFParticlesMap THEN hitToPFParticlesMap[h] ELSE <<>>

\* the resolving loops are over and the scan of the hits has not begun
Resolved == pc = "auditInit"

\* a cluster holds a hit key that is not in the hit collection
ForeignHitReferenced ==
    \E c \in 1 .. nClusters : \E b \in 1 .. Len(clusterToHitAssoc[c]) :
        clusterToHitAssoc[c][b] \notin HitList

----------------------------------------------------------------------------
(* Properties                                                              *)

\* C1: whenever some hit of the hit collection is reached by two or more
\* distinct PFParticles, the call ends by throwing (never by returning) and
\* the count of multi-associated hits is at least 1 at that point.
ViolationDetected ==
    (Terminal /\ \E h \in HitList : Cardinality(OwnersOf(h)) >= 2)
        => (pc = "thrown" /\ nMultiAssociatedHits >= 1)

\* a call that has thrown on an event with a hit owned by two PFParticles
ViolationDetectedWitness ==
    /\ pc = "thrown"
    /\ \E h \in HitList : Cardinality(OwnersOf(h)) >= 2

\* C2: whenever every hit of the hit collection is reached by at most one
\* distinct PFParticle (be it through several clusters, or through a cluster
\* that lists the hit twice), the call returns with a count of 0.
NoViolationPasses ==
    (Terminal /\ \A h \in HitList : Cardinality(OwnersOf(h)) <= 1)
        => (pc = "returned" /\ nMultiAssociatedHits = 0)

\* C3: once the resolving loops are over, PFParticle p occurs in the vector
\* of hit h exactly when p has a cluster whose hit sequence holds h; every
\* entry of the map is a PFParticle of the list.
Transitivity ==
    Resolved =>
        /\ \A h \in HitKeys : \A p \in PFParticleKeys :
            (\E x \in 1 .. Len(DerivedOf(h)) : DerivedOf(h)[x] = p) <=> Reaches(p, h)
        /\ \A h \in DOMAIN hitToPFParticlesMap :
            \A x \in 1 .. Len(hitToPFParticlesMap[h]) :
                /\ hitToPFParticlesMap[h][x] \in PFParticleKeys
                /\ Reaches(hitToPFParticlesMap[h][x], h)

\* the loops are over on an event where two PFParticles reach one hit and
\* another hit key is reached by none
TransitivityWitness ==
    /\ pc = "auditInit"
    /\ \E h \in HitKeys : Cardinality(OwnersOf(h)) >= 2
    /\ \E h \in HitKeys : OwnersOf(h) = {}
    /\ \E h \in HitKeys : \E p \in PFParticleKeys : Cardinality(PathsFrom(p, h)) >= 1

\* C4: the total the call reports is the length of the hit collection, every
\* hit of the collection gets exactly one line, in order; a hit without an
\* entry in the map is printed with 0 and not counted; with no PFParticle
\* at all the call returns with a count of 0.
CoverageState ==
    /\ pc \in {"forAudit", "summary", "verdict", "returned", "thrown"}
        => nHits = hitHandleSize
    /\ summary /= <<>> => summary[1].of = hitHandleSize
    /\ Terminal =>
        /\ Len(diag) = hitHandleSize
        /\ \A a \in 1 .. Len(diag) : diag[a][1] = a - 1
        /\ Len(summary) = 1
    /\ (Terminal /\ nPFParticles = 0) => (pc = "returned" /\ nMultiAssociatedHits = 0)

CoverageStep ==
    (pc = "forAudit" /\ ai < nHits /\ ai \notin DOMAIN hitToPFParticlesMap)
        => /\ diag' = Append(diag, <<ai, 0>>)
           /\ nMultiAssociatedHits' = nMultiAssociatedHits
           /\ ai' = ai + 1

Coverage == []CoverageState /\ [][CoverageStep]_vars

\* a call over two hits has ended, the first hit having had no entry in the map
CoverageWitness ==
    /\ Terminal
    /\ hitHandleSize = 2
    /\ nPFParticles >= 1
    /\ OwnersOf(0) = {}
    /\ OwnersOf(1) /= {}
    /\ diag[1] = <<0, 0>>

\* C5: a call on the last event with two neighbours exchanged in the
\* PFParticle list, in the cluster sequence of a PFParticle or in the hit
\* sequence of a cluster ends as the last call did, with the same total, the
\* same count and the same number printed for every hit.
OrderIndependence ==
    (Terminal /\ replayed) => Result = prevResult

\* a replay has ended, of an event with a hit reached over several paths
OrderIndependenceWitness ==
    /\ Terminal
    /\ replayed
    /\ pc = "thrown"
    /\ \E h \in HitList : Cardinality(OwnersOf(h)) >= 2

\* C6: whenever a cluster holds a hit that is not in the hit collection, the
\* call ends in an error of its own: it neither returns nor ends with the
\* plain count.
MalformedInputSurfaced ==
    ForeignHitReferenced => ~Terminal

\* C7: the number printed for a hit, the one compared with the threshold,
\* is the number of distinct PFParticles that reach the hit.
DistinctCounting ==
    \A a \in 1 .. Len(diag) : diag[a][2] = Cardinality(OwnersOf(diag[a][1]))

\* C8: every call starts from an empty map and a zero count, and ends as the
\* event alone decides, whatever number of calls came before and however
\* the last one ended.
ExpectedCount(h) == Len(PathSeq(h))

ExpectedResult ==
    [verdict |-> IF \E h \in HitList : ExpectedCount(h) >= 2 THEN "thrown" ELSE "returned",
     nHits |-> hitHandleSize,
     nMultiAssociatedHits |-> Cardinality({h \in HitList : ExpectedCount(h) >= 2}),
     diag |-> [a \in 1 .. hitHandleSize |-> <<a - 1, ExpectedCount(a - 1)>>]]

InvocationIndependence ==
    /\ (pc = "forPFParticle" /\ i = 0) => hitToPFParticlesMap = EmptyMap
    /\ (pc = "forAudit" /\ ai = 0) => (nMultiAssociatedHits = 0 /\ diag = <<>>)
    /\ Terminal => Result = ExpectedResult

\* a second call has returned after a first one that threw
InvocationIndependenceWitness ==
    /\ lastOutcome = "thrown"
    /\ pc = "returned"
    /\ hitHandleSize >= 1
    /\ \E h \in HitList : OwnersOf(h) /= {}

\* C9: once the resolving loops are over, the vector of hit h holds one entry
\* of p per path from p to h, no entry dropped as a duplicate, the entries in
\* the order of the PFParticle list; a hit has an entry once it is reached.
RECURSIVE NonDecreasing(_)
NonDecreasing(s) ==
    Len(s) <= 1 \/ (s[1] <= s[2] /\ NonDecreasing(Tail(s)))

Accumulation ==
    Resolved =>
        \A h \in HitKeys :
            /\ DerivedOf(h) = PathSeq(h)
            /\ NonDecreasing(DerivedOf(h))
            /\ \A p \in PFParticleKeys :
                Cardinality({x \in 1 .. Len(DerivedOf(h)) : DerivedOf(h)[x] = p})
                    = Cardinality(PathsFrom(p, h))
            /\ (h \in DOMAIN hitToPFParticlesMap) <=> (PathSeq(h) /= <<>>)

\* the loops are over and one PFParticle is twice in the vector of a hit,
\* which it reaches through two clusters
AccumulationWitness ==
    /\ pc = "auditInit"
    /\ \E h \in DOMAIN hitToPFParticlesMap :
        /\ Len(hitToPFParticlesMap[h]) = 2
        /\ hitToPFParticlesMap[h][1] = hitToPFParticlesMap[h][2]
        /\ \E p \in PFParticleKeys : \E u, v \in PathsFrom(p, h) : u[1] /= v[1]

\* C10: no hit is audited before the resolving loops are over and the
\* vectors do not change during the audit; the lines come one per hit in the
\* order of the hit collection; the summary is printed, and the verdict
\* taken, after the last hit only, so a throw follows all the lines and the
\* summary; every call ends by returning or throwing.
PhaseState ==
    /\ pc \in {"load", "ready", "forPFParticle", "forCluster", "forHit", "auditInit"}
        => (diag = <<>> /\ summary = <<>>)
    /\ pc \in {"forAudit", "summary", "verdict"} => i = nPFParticles
    /\ pc = "forAudit" => (Len(diag) = ai /\ summary = <<>>)
    /\ \A a \in 1 .. Len(diag) : diag[a][1] = a - 1
    /\ pc \in {"summary", "verdict", "returned", "thrown"} => Len(diag) = hitHandleSize
    /\ pc \in {"verdict", "returned", "thrown"} => Len(summary) = 1

PhaseStep ==
    /\ pc = "forAudit" =>
        \A h \in DOMAIN hitToPFParticlesMap : DerivedOf(h)' = DerivedOf(h)
    /\ pc' = "thrown" =>
        (pc = "verdict" /\ Len(diag) = hitHandleSize /\ Len(summary) = 1 /\ output' = output)
    /\ pc' = "returned" => pc = "verdict"

PhaseOrdering ==
    /\ []PhaseState
    /\ [][PhaseStep]_vars
    /\ (pc = "forPFParticle") ~> Terminal

\* a call has thrown after printing the lines of both hits, the first of
\* which was already multi-associated
PhaseOrderingWitness ==
    /\ pc = "thrown"
    /\ Len(diag) = 2
    /\ diag[1][2] >= 2
    /\ Len(summary) = 1

====
